---- MODULE Spec2Model ----
(***************************************************************************)
(* Model of minimix: the class-composition engine Mix (prototype-chain     *)
(* duplication, constructor synthesis, Symbol.hasInstance augmentation,    *)
(* static propagation) and the reuse memoizer.                             *)
(*                                                                         *)
(* The JavaScript heap is modelled explicitly:                             *)
(*   objs     - prototype objects (member-tables): [[Prototype]] link,     *)
(*              the "constructor" back-reference, the own members          *)
(*   ctors    - constructor functions: their prototype object, the         *)
(*              constructor they extend, the own Symbol.hasInstance,       *)
(*              the own enumerable statics, the captured source list       *)
(*   closures - the arrow functions installed as Symbol.hasInstance, each  *)
(*              capturing originalInstanceOf and clone                     *)
(*   inst     - the instance most recently constructed with new            *)
(*   slot     - the reuseSymbol property of each container                 *)
(*   hist     - the reuse calls made so far, with their return values      *)
(***************************************************************************)
EXTENDS Integers, Sequences, FiniteSets, TLC

VARIABLES objs, ctors, closures, inst, slot, hist

vars == <<objs, ctors, closures, inst, slot, hist>>

(* ------------------------------ bounds --------------------------------- *)

\* cap on the number of prototype objects in the heap
MaxObjs == 14

\* cap on the number of prototype objects where classes extending a
\* composite are composed again
MaxObjsDeep == 15

\* cap on the number of sources handed to one Mix call on that deeper heap
MaxSourcesDeep == 2

\* cap on the number of prototype objects where constructor arguments vary
MaxObjsNew == 12

\* cap on the number of sources handed to one Mix call
MaxSources == 3

\* cap on the number of classes declared to extend a composite
MaxSubs == 1

\* cap on the number of reuse calls in one run
MaxCalls == 3

(* --------------------------- the JS universe --------------------------- *)

\* null, as a [[Prototype]] link / "no such constructor or closure"
Null == 0

\* Object.prototype: the universal root table, objs[1]
ObjectPrototype == 1

\* Function.prototype[Symbol.hasInstance], the native predicate, as a function value
NativeHasInstance == 0

\* the key of the static "mixOf" installed on every composite
mixOf == "mixOf"

\* values handed to initializers as constructor arguments
Vals == {"x", "y"}

\* undefined, as the result of a member lookup or a missing argument
Undefined == <<>>

\* values stored through reuse
ReuseVals == {"v1", "v2", "v3"}

\* the reuseSymbol property is absent
Unset == "unset"

\* the containers reuse is called on: Sub inherits from Base (a subclass
\* constructor and its parent class), Other is unrelated
Containers == {"Base", "Sub", "Other"}

ContainerPrototype(c) == IF c = "Sub" THEN "Base" ELSE "null"

\* the empty property table
NoProps == [n \in {} |-> Null]

\* Object.assign(target, source) on plain data properties: source's keys override
ObjectAssign(target, source) ==
  [n \in (DOMAIN target) \cup (DOMAIN source) |->
     IF n \in DOMAIN source THEN source[n] ELSE target[n]]

(* ---- user classes the library is applied to (ids into ctors / objs) ---- *)
\*   class A            { static value = "a"; static onlyA = "a";
\*                        constructor(v) { this.a = v; this.name = v }  a() m() n() }
\*   class P            { static value = "p";
\*                        constructor(v) { this.p = v; this.name = v }  p() n() }
\*   class B extends P  { static onlyB = "b";
\*                        constructor(v) { super(v); this.b = v }       b() m() }
ClassA == 1
ClassP == 2
ClassB == 3

UserObjs ==
  << [parent |-> Null,            ctor |-> Null,   members |-> NoProps],
     [parent |-> ObjectPrototype, ctor |-> ClassA,
      members |-> [n \in {"a", "m", "n"} |-> <<ClassA, n>>]],
     [parent |-> ObjectPrototype, ctor |-> ClassP,
      members |-> [n \in {"p", "n"} |-> <<ClassP, n>>]],
     [parent |-> 3,               ctor |-> ClassB,
      members |-> [n \in {"b", "m"} |-> <<ClassB, n>>]] >>

UserCtors ==
  << [kind |-> "class", proto |-> 2, parent |-> Null, hasInstance |-> Null,
      statics |-> [n \in {"value", "onlyA"} |-> "a"], srcs |-> <<>>, own |-> {"a", "name"}],
     [kind |-> "class", proto |-> 3, parent |-> Null, hasInstance |-> Null,
      statics |-> [n \in {"value"} |-> "p"], srcs |-> <<>>, own |-> {"p", "name"}],
     [kind |-> "class", proto |-> 4, parent |-> ClassP, hasInstance |-> Null,
      statics |-> [n \in {"onlyB"} |-> "b"], srcs |-> <<>>, own |-> {"b"}] >>

NoInst == [ctor |-> Null, proto |-> Null, args |-> <<>>, fields |-> NoProps, log |-> <<>>]

(* ----------------------- prototype-chain helpers ----------------------- *)

\* Object.setPrototypeOf(o, p)
SetPrototypeOf(os, o, p) == [os EXCEPT ![o].parent = p]

\* hasPrototype(instance, prototype): walk the chain from getPrototypeOf(instance)
RECURSIVE ChainHas(_, _, _)
ChainHas(os, cur, prototype) ==
  IF cur = Null THEN FALSE
  ELSE IF cur = prototype THEN TRUE
  ELSE ChainHas(os, os[cur].parent, prototype)

hasPrototype(os, instance, prototype) == ChainHas(os, instance.proto, prototype)

\* K[Symbol.hasInstance]: property lookup along the constructor's own chain,
\* ending at Function.prototype, which holds the native predicate
RECURSIVE GetHasInstance(_, _)
GetHasInstance(cs, k) ==
  IF k = Null THEN NativeHasInstance
  ELSE IF cs[k].hasInstance # Null THEN cs[k].hasInstance
  ELSE GetHasInstance(cs, cs[k].parent)

\* OrdinaryHasInstance(C, O); with C = undefined (not callable) it is false
OrdinaryHasInstance(os, cs, k, instance) ==
  IF k = Null THEN FALSE ELSE ChainHas(os, instance.proto, cs[k].proto)

\* calling a Symbol.hasInstance function value detached from its receiver:
\* the arrow function installed by clonePrototype, or the native predicate
\* with this = undefined
RECURSIVE CallHasInstance(_, _, _, _, _)
CallHasInstance(os, cs, cl, f, instance) ==
  IF f = NativeHasInstance THEN OrdinaryHasInstance(os, cs, Null, instance)
  ELSE CallHasInstance(os, cs, cl, cl[f].orig, instance)
         \/ hasPrototype(os, instance, cl[f].clone)

\* instance instanceof K
InstanceOf(os, cs, cl, instance, k) ==
  LET f == GetHasInstance(cs, k) IN
    IF f = NativeHasInstance THEN OrdinaryHasInstance(os, cs, k, instance)
    ELSE CallHasInstance(os, cs, cl, f, instance)

\* member lookup: the first table of the chain holding the name
RECURSIVE Lookup(_, _, _)
Lookup(os, cur, name) ==
  IF cur = Null THEN Undefined
  ELSE IF name \in DOMAIN os[cur].members THEN os[cur].members[name]
  ELSE Lookup(os, os[cur].parent, name)

(* ------------------------------- Mix ----------------------------------- *)

\* evaluate x once and hand the value to F: a const binding of the source
With(x, F(_)) == CHOOSE r \in {F(v) : v \in {x}} : TRUE

\* clonePrototype with the new predicate not consulting originalInstanceOf:
\* each composition replaces what the source recognized before
clonePrototypeReplacing(h, prototype) ==
  LET clone == Len(h.objs) + 1
      k     == h.objs[prototype].ctor
      fn    == Len(h.closures) + 1
  IN [objs     |-> Append(h.objs, [parent |-> Null, ctor |-> k,
                                   members |-> h.objs[prototype].members]),
      closures |-> Append(h.closures, [orig |-> NativeHasInstance, clone |-> clone]),
      ctors    |-> [h.ctors EXCEPT ![k].hasInstance = fn]]

\* clonePrototype(prototype) on heap h = [objs, ctors, closures];
\* the clone is the last object of the resulting heap
clonePrototype(h, prototype) ==
  LET clone == Len(h.objs) + 1
      k     == h.objs[prototype].ctor
      originalInstanceOf == GetHasInstance(h.ctors, k)
      fn    == Len(h.closures) + 1
  IN [objs     |-> Append(h.objs, [parent |-> Null, ctor |-> k,
                                   members |-> h.objs[prototype].members]),
      closures |-> Append(h.closures, [orig |-> originalInstanceOf, clone |-> clone]),
      ctors    |-> [h.ctors EXCEPT ![k].hasInstance = fn]]

\* the while loop of clonePrototypeDeep
RECURSIVE DeepLoop(_, _, _, _)
DeepLoop(h, clone, lastPrototype, nextPrototype) ==
  IF nextPrototype = Null \/ nextPrototype = ObjectPrototype
  THEN [heap |-> h, prototype |-> clone, lastPrototype |-> lastPrototype]
  ELSE With(clonePrototype(h, nextPrototype), LAMBDA h1 :
         With(Len(h1.objs), LAMBDA nextPrototypeClone :
           DeepLoop([h1 EXCEPT !.objs = SetPrototypeOf(h1.objs, lastPrototype, nextPrototypeClone)],
                    clone, nextPrototypeClone, h1.objs[nextPrototype].parent)))

clonePrototypeDeep(h, prototype) ==
  With(clonePrototype(h, prototype), LAMBDA h1 :
    DeepLoop(h1, Len(h1.objs), Len(h1.objs), h1.objs[prototype].parent))

\* the for loop of step 1 over constructors.slice(1), from index i on
RECURSIVE ChainLoop(_, _, _, _)
ChainLoop(h, constructors, i, lastPrototype) ==
  IF i > Len(constructors) THEN [heap |-> h, lastPrototype |-> lastPrototype]
  ELSE With(clonePrototypeDeep(h, h.ctors[constructors[i]].proto), LAMBDA d :
         ChainLoop([d.heap EXCEPT !.objs = SetPrototypeOf(d.heap.objs, lastPrototype, d.prototype)],
                   constructors, i + 1, d.prototype))

RECURSIVE AssignStatics(_, _, _, _)

\* step 4 with the statics already present kept: the first source wins
AssignStaticsFirstWins(cs, statics, constructors, i) ==
  IF i > Len(constructors) THEN statics
  ELSE AssignStatics(cs, ObjectAssign(cs[constructors[i]].statics, statics), constructors, i + 1)

\* step 4: Object.assign(create, nextConstructor) for every constructor, in order
AssignStatics(cs, statics, constructors, i) ==
  IF i > Len(constructors) THEN statics
  ELSE AssignStatics(cs, ObjectAssign(statics, cs[constructors[i]].statics), constructors, i + 1)

\* steps 2 to 4 without step 3: create.prototype stays linked to
\* firstConstructor.prototype, as "extends" leaves it
CreateUnlinked(h, constructors, prototype) ==
  LET create == Len(h.ctors) + 1
      createPrototype == Len(h.objs) + 1
  IN [objs     |-> Append(h.objs, [parent |-> h.ctors[constructors[1]].proto,
                                   ctor |-> create, members |-> NoProps]),
      closures |-> h.closures,
      ctors    |-> Append(h.ctors,
                     [kind |-> "mix", proto |-> createPrototype, parent |-> constructors[1],
                      hasInstance |-> Null,
                      statics |-> AssignStatics(h.ctors, [n \in {mixOf} |-> constructors],
                                                constructors, 1),
                      srcs |-> constructors, own |-> {}])]

\* steps 2 to 4 with "class create" not extending firstConstructor
CreateNotExtending(h, constructors, prototype) ==
  LET create == Len(h.ctors) + 1
      createPrototype == Len(h.objs) + 1
  IN [objs     |-> Append(h.objs, [parent |-> prototype, ctor |-> create, members |-> NoProps]),
      closures |-> h.closures,
      ctors    |-> Append(h.ctors,
                     [kind |-> "mix", proto |-> createPrototype, parent |-> Null,
                      hasInstance |-> Null,
                      statics |-> AssignStatics(h.ctors, [n \in {mixOf} |-> constructors],
                                                constructors, 1),
                      srcs |-> constructors, own |-> {}])]

\* steps 2 to 4: class create extends firstConstructor, its prototype linked to
\* the chain, the statics assigned
Create(h, constructors, prototype) ==
  LET create == Len(h.ctors) + 1
      createPrototype == Len(h.objs) + 1
  IN [objs     |-> Append(h.objs, [parent |-> prototype, ctor |-> create, members |-> NoProps]),
      closures |-> h.closures,
      ctors    |-> Append(h.ctors,
                     [kind |-> "mix", proto |-> createPrototype, parent |-> constructors[1],
                      hasInstance |-> Null,
                      statics |-> AssignStatics(h.ctors, [n \in {mixOf} |-> constructors],
                                                constructors, 1),
                      srcs |-> constructors, own |-> {}])]

\* Mix(...constructors) for two or more constructors: the resulting heap;
\* the composite constructor is the last constructor of the result
MixHeap(h, constructors) ==
  With(clonePrototypeDeep(h, h.ctors[constructors[1]].proto), LAMBDA c :
    With(ChainLoop(c.heap, constructors, 2, c.lastPrototype), LAMBDA l :
      Create([l.heap EXCEPT !.objs =
                SetPrototypeOf(l.heap.objs, l.lastPrototype,
                               l.heap.ctors[constructors[Len(constructors)]].proto)],
             constructors, c.prototype)))

Heap == [objs |-> objs, ctors |-> ctors, closures |-> closures]

\* the number of tables clonePrototypeDeep duplicates from prototype on
RECURSIVE ChainLength(_, _)
ChainLength(os, cur) ==
  IF cur = Null \/ cur = ObjectPrototype THEN 0 ELSE 1 + ChainLength(os, os[cur].parent)

\* the number of constructors of a kind
Count(kind) == Cardinality({k \in 1..Len(ctors) : ctors[k].kind = kind})

\* the source lists of n constructors a caller may hand to Mix, such that
\* the duplicates Mix allocates fit into room objects
RECURSIVE SourceLists(_, _)
SourceLists(n, room) ==
  IF n = 0 THEN {<<>>}
  ELSE UNION {{<<k>> \o rest : rest \in SourceLists(n - 1, room - ChainLength(objs, ctors[k].proto))} :
                k \in {c \in 1..Len(ctors) : ChainLength(objs, ctors[c].proto) <= room - (n - 1)}}

\* const Composite = Mix(...constructors), two or more constructors
Mix(constructors) ==
  /\ Len(constructors) >= 2
  /\ \E h \in {MixHeap(Heap, constructors)} :
       /\ objs' = h.objs
       /\ ctors' = h.ctors
       /\ closures' = h.closures
  /\ UNCHANGED <<inst, slot, hist>>

\* class D extends K { d() {} } for a composite K, as in
\* "class FooBar extends Mix(Foo, Bar)": no constructor of its own, no statics
Extend(k) ==
  /\ ctors[k].kind = "mix"
  /\ LET d == Len(ctors) + 1 IN
       /\ objs' = Append(objs, [parent |-> ctors[k].proto, ctor |-> d,
                                members |-> [n \in {"d"} |-> <<d, n>>]])
       /\ ctors' = Append(ctors, [kind |-> "sub", proto |-> Len(objs) + 1, parent |-> k,
                                  hasInstance |-> Null, statics |-> NoProps,
                                  srcs |-> <<>>, own |-> {}])
  /\ UNCHANGED <<closures, inst, slot, hist>>

(* ---------------------------- construction ----------------------------- *)

\* the well-formed argument lists of constructor k: one of the given lists
\* for a user class, one argument-group per source for a composite
RECURSIVE Groups(_, _, _), GroupLists(_, _, _, _)
Groups(cs, k, lists) ==
  IF cs[k].kind = "class" THEN lists
  ELSE IF cs[k].kind = "sub" THEN Groups(cs, cs[k].parent, lists)
  ELSE GroupLists(cs, cs[k].srcs, 1, lists)

GroupLists(cs, constructors, i, lists) ==
  IF i > Len(constructors) THEN {<<>>}
  ELSE {<<g>> \o rest : g \in Groups(cs, constructors[i], lists),
                        rest \in GroupLists(cs, constructors, i + 1, lists)}

\* the first argument of an argument list
FirstArgument(parameters) == IF Len(parameters) >= 1 THEN parameters[1] ELSE "undefined"

\* running constructor k with the given arguments, called by constructor by:
\* the own fields it leaves on this, and the constructor calls made
RECURSIVE Run(_, _, _, _), ForEachNext(_, _, _, _, _)

\* class create { constructor(...parameters) {...} }: super(...parameters[0]),
\* then every next constructor
CreateConstructor(cs, k, parameters, call) ==
  With(Run(cs, cs[k].srcs[1], parameters[1], k), LAMBDA sup :
    ForEachNext(cs, k, parameters, 2, [fields |-> sup.fields, log |-> call \o sup.log]))

Run(cs, k, parameters, by) ==
  LET call == <<[ctor |-> k, args |-> parameters, by |-> by]>> IN
  IF cs[k].kind = "class" THEN
    LET sup == IF cs[k].parent = Null THEN [fields |-> NoProps, log |-> <<>>]
               ELSE Run(cs, cs[k].parent, parameters, k)
    IN [fields |-> ObjectAssign(sup.fields, [n \in cs[k].own |-> FirstArgument(parameters)]),
        log    |-> call \o sup.log]
  ELSE IF cs[k].kind = "sub" THEN
    LET sup == Run(cs, cs[k].parent, parameters, k)
    IN [fields |-> sup.fields, log |-> call \o sup.log]
  ELSE CreateConstructor(cs, k, parameters, call)

\* the forEach with parameters[index] in place of parameters[index + 1]
ForEachNextShifted(cs, k, parameters, i, acc) ==
  IF i > Len(cs[k].srcs) THEN acc
  ELSE With(Run(cs, cs[k].srcs[i], parameters[i - 1], k), LAMBDA made :
         ForEachNext(cs, k, parameters, i + 1,
                     [fields |-> ObjectAssign(acc.fields, made.fields),
                      log    |-> acc.log \o made.log]))

\* constructors.slice(1).forEach(...) of the composite constructor, from index i on
ForEachNext(cs, k, parameters, i, acc) ==
  IF i > Len(cs[k].srcs) THEN acc
  ELSE With(Run(cs, cs[k].srcs[i], parameters[i], k), LAMBDA made :
         ForEachNext(cs, k, parameters, i + 1,
                     [fields |-> ObjectAssign(acc.fields, made.fields),
                      log    |-> acc.log \o made.log]))

\* inst = new K(...parameters); inst is the one instance a run observes
New(k, parameters) ==
  /\ inst = NoInst
  /\ \E r \in {Run(ctors, k, parameters, Null)} :
       inst' = [ctor |-> k, proto |-> ctors[k].proto, args |-> parameters,
                fields |-> r.fields, log |-> r.log]
  /\ UNCHANGED <<objs, ctors, closures, slot, hist>>

(* ------------------------------- reuse --------------------------------- *)

\* reuseSymbol in container: own or inherited
RECURSIVE HasReuseSymbol(_, _)
HasReuseSymbol(s, container) ==
  IF container = "null" THEN FALSE
  ELSE IF s[container] # Unset THEN TRUE
  ELSE HasReuseSymbol(s, ContainerPrototype(container))

\* container[reuseSymbol]: the nearest holder along the chain
RECURSIVE GetReuseSymbol(_, _)
GetReuseSymbol(s, container) ==
  IF container = "null" THEN Unset
  ELSE IF s[container] # Unset THEN s[container]
  ELSE GetReuseSymbol(s, ContainerPrototype(container))

\* reuse without the "in" test: every call stores and returns its value
reuseOverwriting(s, container, value) ==
  [slot |-> [s EXCEPT ![container] = value], returned |-> value]

\* reuse(container, value): the slots afterwards and the value returned
reuse(s, container, value) ==
  IF HasReuseSymbol(s, container)
  THEN [slot |-> s, returned |-> GetReuseSymbol(s, container)]
  ELSE [slot |-> [s EXCEPT ![container] = value], returned |-> value]

Reuse(container, value) ==
  /\ Len(hist) < MaxCalls
  /\ \E r \in {reuse(slot, container, value)} :
       /\ slot' = r.slot
       /\ hist' = Append(hist, [container |-> container, value |-> value,
                                returned |-> r.returned])
  /\ UNCHANGED <<objs, ctors, closures, inst>>

(* --------------------------- specifications ---------------------------- *)

Init ==
  /\ objs = UserObjs
  /\ ctors = UserCtors
  /\ closures = <<>>
  /\ inst = NoInst
  /\ slot = [c \in Containers |-> Unset]
  /\ hist = <<>>

\* compositions, subclasses of composites, and one instance constructed as
\* in "super([], [])"
Next ==
  \/ \E n \in 2..MaxSources :
       \E constructors \in SourceLists(n, MaxObjs - Len(objs) - 1) : Mix(constructors)
  \/ \E k \in 1..Len(ctors) :
       Len(objs) < MaxObjs /\ Count("sub") < MaxSubs /\ Extend(k)
  \/ \E k \in 1..Len(ctors) : \E parameters \in Groups(ctors, k, {<<>>}) : New(k, parameters)

Spec == Init /\ [][Next]_vars

\* the same, on a smaller heap, with every choice of constructor arguments
NextNew ==
  \/ \E n \in 2..MaxSources :
       \E constructors \in SourceLists(n, MaxObjsNew - Len(objs) - 1) : Mix(constructors)
  \/ \E k \in 1..Len(ctors) :
       Len(objs) < MaxObjsNew /\ Count("sub") < MaxSubs /\ Extend(k)
  \/ \E k \in 1..Len(ctors) :
       \E parameters \in Groups(ctors, k, {<<v>> : v \in Vals}) : New(k, parameters)

SpecNew == Init /\ [][NextNew]_vars

\* the same as Next, on a larger heap, with fewer sources per Mix call
NextDeep ==
  \/ \E n \in 2..MaxSourcesDeep :
       \E constructors \in SourceLists(n, MaxObjsDeep - Len(objs) - 1) : Mix(constructors)
  \/ \E k \in 1..Len(ctors) :
       Len(objs) < MaxObjsDeep /\ Count("sub") < MaxSubs /\ Extend(k)
  \/ \E k \in 1..Len(ctors) : \E parameters \in Groups(ctors, k, {<<>>}) : New(k, parameters)

SpecDeep == Init /\ [][NextDeep]_vars

\* reuse calls on the containers
NextReuse == \E container \in Containers : \E value \in ReuseVals : Reuse(container, value)

SpecReuse == Init /\ [][NextReuse]_vars

(* ------------------------ vocabulary of the claims --------------------- *)

Ctors == 1..Len(ctors)

\* instance instanceof K, in the current heap
Check(k, instance) == InstanceOf(objs, ctors, closures, instance, k)

\* K and the constructors K extends
RECURSIVE CtorChain(_)
CtorChain(k) == IF k = Null THEN {} ELSE {k} \cup CtorChain(ctors[k].parent)

\* the positions of a source list
Positions(k) == 1..Len(ctors[k].srcs)

\* the constructors passed to Mix so far
Passed == UNION {{ctors[c].srcs[i] : i \in Positions(c)} : c \in Ctors}

\* the names defined by the tables of a chain, the root excluded
RECURSIVE ChainNames(_)
ChainNames(cur) ==
  IF cur = Null \/ cur = ObjectPrototype THEN {}
  ELSE (DOMAIN objs[cur].members) \cup ChainNames(objs[cur].parent)

\* the member names in use
Names == {"a", "b", "d", "m", "n", "p"}

\* the constructors passed to Mix so far, and the constructors they extend
Touched == UNION {CtorChain(s) : s \in Passed}

\* the composites among the constructors
Composites == {c \in Ctors : ctors[c].kind = "mix"}

\* the names of the own member-table of a constructor's prototype
OwnNames(k) == DOMAIN objs[ctors[k].proto].members

\* the constructors an instance of k is built from: k, what it extends, and
\* the sources (with what they extend) of every composite among them
RECURSIVE Related(_)
Related(k) ==
  IF k = Null THEN {}
  ELSE {k} \cup Related(ctors[k].parent)
           \cup UNION {Related(ctors[k].srcs[i]) : i \in Positions(k)}

InstOfComposite == inst.ctor # Null /\ ctors[inst.ctor].kind = "mix"

(* -------------------------------- C1 ----------------------------------- *)

\* C1: an instance constructed from a composite type (or from a class
\* extending one) is instanceof-positive for every source of that composite,
\* whatever is composed afterwards.
C1_InstanceOfEverySource ==
  inst.ctor # Null =>
    \A c \in CtorChain(inst.ctor) :
      \A i \in Positions(c) : Check(ctors[c].srcs[i], inst)

\* an instance of a three-source composite, one of whose sources was
\* composed again into a later composite
C1_Witness ==
  /\ InstOfComposite
  /\ Len(ctors[inst.ctor].srcs) = 3
  /\ \E c \in Ctors : \E i \in Positions(c) : \E j \in 1..3 :
       c > inst.ctor /\ ctors[c].srcs[i] = ctors[inst.ctor].srcs[j]

(* -------------------------------- C2 ----------------------------------- *)

\* C2: an object constructed from a plain class stays instanceof-positive
\* for that class and for every class it extends, however often these are
\* passed to Mix.
C2_TrueAncestryStaysPositive ==
  (inst.ctor # Null /\ ctors[inst.ctor].kind = "class") =>
    \A s \in CtorChain(inst.ctor) : Check(s, inst)

(* -------------------------------- C3 ----------------------------------- *)

\* C3: every member defined by a source or by the ancestry of a source is
\* found by member lookup on an instance of the composite.
C3_EveryMemberFound ==
  InstOfComposite =>
    \A i \in Positions(inst.ctor) :
      \A name \in ChainNames(ctors[ctors[inst.ctor].srcs[i]].proto) :
        Lookup(objs, inst.proto, name) # Undefined

(* -------------------------------- C4 ----------------------------------- *)

\* the constructor calls the composite constructor of inst made itself
DirectCalls == SelectSeq(inst.log, LAMBDA e : e.by = inst.ctor)

\* the own fields the initializer of source i leaves
FieldsOfSource(i) ==
  Run(ctors, ctors[inst.ctor].srcs[i], inst.args[i], inst.ctor).fields

\* C4: constructing a composite with one argument-group per source calls
\* source i exactly once, with group i, in source order, and the instance
\* carries every field the initializers set, with the value of the latest
\* source setting it.
C4_ConstructorDispatch ==
  InstOfComposite =>
    /\ Len(DirectCalls) = Len(ctors[inst.ctor].srcs)
    /\ \A i \in Positions(inst.ctor) :
         /\ DirectCalls[i].ctor = ctors[inst.ctor].srcs[i]
         /\ DirectCalls[i].args = inst.args[i]
         /\ \A f \in DOMAIN FieldsOfSource(i) :
              /\ f \in DOMAIN inst.fields
              /\ (\A j \in Positions(inst.ctor) : j > i => f \notin DOMAIN FieldsOfSource(j))
                   => inst.fields[f] = FieldsOfSource(i)[f]

\* an instance of a three-source composite in which two sources set the
\* same field to different values
C4_Witness ==
  /\ InstOfComposite
  /\ Len(ctors[inst.ctor].srcs) = 3
  /\ \E i, j \in 1..3 : \E f \in DOMAIN FieldsOfSource(i) :
       /\ i < j
       /\ f \in DOMAIN FieldsOfSource(j)
       /\ FieldsOfSource(i)[f] # FieldsOfSource(j)[f]
       /\ inst.fields[f] = FieldsOfSource(j)[f]

(* -------------------------------- C5 ----------------------------------- *)

\* the calls made on a container, in order
CallsOn(c) == SelectSeq(hist, LAMBDA e : e.container = c)

\* C5: when all reuse calls are made on the same container, every call
\* returns the value passed to the first call; and on every container the
\* stored value is the value of the first call on it, never replaced.
C5_ReuseIdempotent ==
  /\ \A c \in Containers :
       CallsOn(c) = hist =>
         \A i \in 1..Len(hist) : hist[i].returned = hist[1].value
  /\ \A c \in Containers :
       slot[c] # Unset => slot[c] = CallsOn(c)[1].value

\* three calls on one container with three different values
C5_Witness ==
  /\ Len(hist) = 3
  /\ CallsOn(hist[1].container) = hist
  /\ hist[1].value # hist[2].value
  /\ hist[2].value # hist[3].value

(* -------------------------------- C6 ----------------------------------- *)

\* C6: the first reuse call on each container returns that call's own
\* value, whatever the relationship of the containers.
C6_ReuseIsolated ==
  \A c \in Containers :
    Len(CallsOn(c)) > 0 => CallsOn(c)[1].returned = CallsOn(c)[1].value

(* -------------------------------- C7 ----------------------------------- *)

\* the positions of composite c whose source defines the static name
Definers(c, name) == {i \in Positions(c) : name \in DOMAIN ctors[ctors[c].srcs[i]].statics}

Max(S) == CHOOSE x \in S : \A y \in S : y <= x

Min(S) == CHOOSE x \in S : \A y \in S : x <= y

\* C7: every static of a composite that some source defines has the value
\* of the last source in the list defining it.
C7_StaticsLastWins ==
  \A c \in Ctors :
    ctors[c].kind = "mix" =>
      \A name \in UNION {DOMAIN ctors[ctors[c].srcs[i]].statics : i \in Positions(c)} :
        /\ name \in DOMAIN ctors[c].statics
        /\ ctors[c].statics[name] =
             ctors[ctors[c].srcs[Max(Definers(c, name))]].statics[name]

\* a composite two of whose sources define "value" differently, the
\* earlier one not being overridden again
C7_Witness ==
  \E c \in Ctors :
    /\ ctors[c].kind = "mix"
    /\ Len(ctors[c].srcs) = 3
    /\ Cardinality(Definers(c, "value")) >= 2
    /\ ctors[ctors[c].srcs[Min(Definers(c, "value"))]].statics["value"]
         # ctors[ctors[c].srcs[Max(Definers(c, "value"))]].statics["value"]

(* -------------------------------- C8 ----------------------------------- *)

\* C8: a source is never instanceof-positive for an object that is neither
\* a true instance of it nor built by a composition involving it.
C8_NoFalsePositives ==
  inst.ctor # Null =>
    \A s \in Passed :
      Check(s, inst) =>
        \/ OrdinaryHasInstance(objs, ctors, s, inst)
        \/ s \in Related(inst.ctor)

(* -------------------------------- C9 ----------------------------------- *)

\* the positions of composite c whose source defines name in its own table
OwnDefiners(c, name) == {i \in Positions(c) : name \in OwnNames(ctors[c].srcs[i])}

\* the positions whose source provides name to the chain: the first source
\* with its whole ancestry, every later source with its own table
Providers(c, name) ==
  {i \in Positions(c) :
     IF i = 1 THEN name \in ChainNames(ctors[ctors[c].srcs[1]].proto)
     ELSE name \in OwnNames(ctors[c].srcs[i])}

\* C9 as stated: on a name collision between sources, lookup on a composite
\* instance resolves to the definition of the last source defining the name.
C9_LastSourceWins ==
  InstOfComposite =>
    \A name \in Names :
      Cardinality(OwnDefiners(inst.ctor, name)) >= 2 =>
        Lookup(objs, inst.proto, name) =
          objs[ctors[ctors[inst.ctor].srcs[Max(OwnDefiners(inst.ctor, name))]].proto].members[name]

\* C9 amended: on a name collision between sources, lookup on a composite
\* instance resolves to the definition the first providing source resolves
\* (the first source provides what it defines or inherits, a later source
\* what it defines itself).
C9_FirstSourceWins ==
  InstOfComposite =>
    \A name \in Names :
      Cardinality(OwnDefiners(inst.ctor, name)) >= 2 =>
        Lookup(objs, inst.proto, name) =
          Lookup(objs, ctors[ctors[inst.ctor].srcs[Min(Providers(inst.ctor, name))]].proto, name)

\* an instance of a composite two later sources of which define a name
\* differently, the first source inheriting that name from its ancestry
C9_Witness ==
  /\ InstOfComposite
  /\ \E name \in Names :
       /\ Cardinality({objs[ctors[ctors[inst.ctor].srcs[i]].proto].members[name] :
                         i \in OwnDefiners(inst.ctor, name)}) >= 2
       /\ 1 \notin OwnDefiners(inst.ctor, name)
       /\ 1 \in Providers(inst.ctor, name)

(* -------------------------------- C10 ---------------------------------- *)

\* the classes extending c, c itself excluded
Extending(c) == {d \in Ctors : d # c /\ c \in CtorChain(d)}

\* C10 as stated: a composite never itself passed to Mix has no
\* Symbol.hasInstance of its own, and it and every class extending it answer
\* instanceof as its first source does.
C10_CompositeDefersToFirstSource ==
  \A c \in Composites \ Passed :
    /\ ctors[c].hasInstance = Null
    /\ inst.ctor # Null =>
         \A d \in {c} \cup Extending(c) : Check(d, inst) = Check(ctors[c].srcs[1], inst)

\* C10 amended: the same, for a composite such that neither it nor any
\* class extending it was passed to Mix.
C10_UntouchedCompositeDefers ==
  \A c \in Composites \ Touched :
    \A d \in {c} \cup Extending(c) :
      /\ ctors[d].hasInstance = Null
      /\ inst.ctor # Null => Check(d, inst) = Check(ctors[c].srcs[1], inst)

\* a composite with a class extending it, neither passed to Mix, after its
\* first source was composed again, and an instance of that later composite
C10_Witness ==
  \E c \in Composites \ Touched :
    /\ Extending(c) # {}
    /\ inst.ctor > c
    /\ ctors[inst.ctor].kind = "mix"
    /\ \E i \in Positions(inst.ctor) : ctors[inst.ctor].srcs[i] = ctors[c].srcs[1]
====
